---------------------------- MODULE Spec2Model ----------------------------
(***************************************************************************)
(* GeoGuardian: the call relay (ConnectionManager, helpers.py), the call   *)
(* workflow (CallAgent, call_agent.py), the service tasks (main.py) and    *)
(* the ticket workflow (ticket_tools.py, state.py).                        *)
(*                                                                         *)
(* Python dictionaries are functions whose DOMAIN is the set of keys; a    *)
(* missing key of a message is the value NoKey; asyncio tasks interleave   *)
(* only at their await points, so the code between two awaits is one step. *)
(***************************************************************************)
EXTENDS Integers, Sequences, FiniteSets, TLC

\* ------------------------------------------------------------------ bounds
Clients == {"c1"}
TickSeconds == 200
MaxTicks == 2
MaxBacklog == 1
MaxFeed == 2
MaxArrivals == 2

\* ------------------------------------------------------- program constants
QueueMaxSize == 100
IdleSeconds == 300

NoKey == "<missing>"
None == << >>
Some(x) == << x >>

\* ---------------------------------------------------------------- messages
\* One shape for every dictionary that travels: the telephony key 'event',
\* the AI key 'type', the carried value (payload, text, data) and the
\* stream token.
Ev(e, t, d, s) == [event |-> e, type |-> t, data |-> d, sid |-> s]

Payloads == {"p1"}
Texts == {"t1", "t2"}
StreamSids == {"MZ1"}
EscalationText == "t2"
CapTexts == {"t1"}

TwilioStart(s) == Ev("start", NoKey, NoKey, s)
TwilioMedia(p) == Ev("media", NoKey, p, NoKey)
TwilioStop == Ev("stop", NoKey, NoKey, NoKey)
TwilioNoEvent == Ev(NoKey, NoKey, NoKey, NoKey)

\* Messages process_media_packet may be handed: well formed, and each way a
\* key can be missing.
TwilioMessages ==
    {TwilioStart(s) : s \in StreamSids \cup {NoKey}}
        \cup {TwilioMedia(p) : p \in Payloads \cup {NoKey}}
        \cup {TwilioStop, TwilioNoEvent}

AiTranscript(t) == Ev(NoKey, "transcript", t, NoKey)
AiAudioOutput(d) == Ev(NoKey, "audio_output", d, NoKey)
AiResponseDone(t) == Ev(NoKey, "response.done", t, NoKey)
AiOther == Ev(NoKey, "session.updated", NoKey, NoKey)
AiNoType == Ev(NoKey, NoKey, NoKey, NoKey)

\* Events handle_openai_event may be handed.
OpenaiEvents ==
    {AiTranscript(t) : t \in Texts \cup {NoKey}}
        \cup {AiAudioOutput(d) : d \in Payloads \cup {NoKey}}
        \cup {AiResponseDone(t) : t \in Texts}
        \cup {AiOther, AiNoType}

\* helpers.py 120-124: what handle_openai_event puts on the twilio queue.
ResponseItem(t) == Ev(NoKey, "response", t, NoKey)
\* helpers.py 102-107: what process_media_packet puts on the openai queue.
AudioInputItem(p) == Ev(NoKey, "audio_input", p, NoKey)

\* ------------------------------------------------------------------- state
VARIABLES
    active_connections,   \* client id -> client_state of its websocket
    twilio_queues,        \* client id -> queue (a sequence, head first)
    openai_queues,        \* client id -> queue
    interruption_events,  \* client id -> event; nothing ever adds one
    states,               \* client id -> the state dictionary of connect
    stream_sids,          \* client id -> stream token
    now,                  \* datetime.now(), in seconds
    tasks,                \* background task -> "not_started" | "running" | "crashed"
    teardowns,            \* client id -> times disconnect ran since its connect (2: twice or more)
    lastOp,               \* the operation that made the last step, and how it ended
    node,                 \* the call workflow's current node
    wf_pc,                \* where the workflow's task stands (see WorkflowPcs)
    call_state,           \* the CallState the workflow's nodes are handed
    persisted,            \* times save_data was entered (2: twice or more)
    ended_at_persist,     \* call_ended when save_data was entered
    telephony_fed,        \* telephony events put on the client's queue so far
    stop_fed,             \* the 'stop' event is among them
    ai_fed,               \* AI events put on the client's queue so far
    ai_arrivals,          \* texts of the AI responses handle_openai_event received, in order
    esc_seen,             \* process_ai has consumed a response with the escalation text
    tk_node,              \* the ticket workflow's current node
    tk_state,             \* the TicketState its nodes are handed
    tk_entry,             \* the run was started by classify_and_create_ticket
    tk_api,               \* what the classification backend answered in a tk_entry run
    tk_result,            \* what classify_and_create_ticket returned
    call_tasks,           \* task of process_client_stream -> "not_started" | "running" | "exited"
    openai_ws,            \* the call's AI connection: "none" | "open" | "closed"
    packets_pc            \* where process_media_packets stands: "run" | "get" | "orphaned"

regVars == << active_connections, twilio_queues, openai_queues,
              interruption_events, states, stream_sids, now, tasks,
              teardowns >>

wfVars == << node, wf_pc, call_state, persisted, ended_at_persist,
             telephony_fed, stop_fed, ai_fed, ai_arrivals, esc_seen >>

tkVars == << tk_node, tk_state, tk_entry, tk_api, tk_result >>

\* The variables of a call's media stream (main.py 126-134) and of the
\* service's media consumer (helpers.py 81-92).
streamVars == << call_tasks, openai_ws, packets_pc >>

\* The variables of the two workflows' runs and of the stream.
runVars == << wfVars, tkVars, streamVars >>

\* What a step of the call workflow leaves alone.
restVars == << tkVars, streamVars >>

vars == << regVars, lastOp, wfVars, tkVars, streamVars >>

\* ------------------------------------------------------------ dictionaries
Put(m, k, v) == [x \in DOMAIN m \cup {k} |-> IF x = k THEN v ELSE m[x]]
Without(m, k) == [x \in DOMAIN m \ {k} |-> m[x]]

\* op: the operation; raised: the exception that left it or, for a node of
\* the call workflow, that ended it ("none" otherwise); present: whether the client was registered when it began;
\* sent: what it sent on the client's telephony websocket.
Op(name, c, exc, was, out) ==
    [op |-> name, client |-> c, raised |-> exc, present |-> was, sent |-> out]

NoClient == "-"
Nothing == Ev(NoKey, NoKey, NoKey, NoKey)

Registered(c) == c \in DOMAIN states

\* helpers.py 147, 188: (now - last_activity).total_seconds() > 300
Idle(c) == now - states[c].last_activity > IdleSeconds

\* ------------------------------------------------------ ConnectionManager
\* helpers.py 36-42
ManagerInit ==
    /\ active_connections = << >>
    /\ twilio_queues = << >>
    /\ openai_queues = << >>
    /\ interruption_events = << >>
    /\ states = << >>
    /\ stream_sids = << >>

\* helpers.py 50-55. The dictionary has no 'last_response' and no
\* 'call_ended' key: None and FALSE stand for the missing keys (line 152
\* reads state.get('call_ended')).
NewState ==
    [connected_at |-> now, last_activity |-> now, last_response |-> None,
     media_counter |-> 0, call_status |-> "connecting", call_ended |-> FALSE]

\* helpers.py 44-56. client_id is str(id(websocket)) (main.py 41): no two live
\* websockets share it, and a registered websocket is kept alive by
\* active_connections.
connect(c) ==
    /\ c \notin DOMAIN active_connections
    /\ active_connections' = Put(active_connections, c, "open")
    /\ twilio_queues' = Put(twilio_queues, c, << >>)
    /\ openai_queues' = Put(openai_queues, c, << >>)
    /\ states' = Put(states, c, NewState)
    /\ teardowns' = [teardowns EXCEPT ![c] = 0]
    /\ UNCHANGED << interruption_events, stream_sids, now, tasks >>
    /\ lastOp' = Op("connect", c, "none", Registered(c), Nothing)

\* dict.pop(key) with no default: KeyError on a missing key.
PopStrict(m, c) == [map |-> Without(m, c), raised |-> c \notin DOMAIN m]

\* helpers.py 65: collection.pop(client_id, None)
PopDefault(m, c) == [map |-> Without(m, c), raised |-> FALSE]

\* A teardown that leaves the telephony queue of the call in place.
TeardownKeepsQueue(c) ==
    /\ active_connections' = PopDefault(active_connections, c).map
    /\ twilio_queues' = twilio_queues
    /\ openai_queues' = PopDefault(openai_queues, c).map
    /\ interruption_events' = PopDefault(interruption_events, c).map
    /\ states' = PopDefault(states, c).map
    /\ stream_sids' = stream_sids
    /\ teardowns' = [teardowns EXCEPT ![c] = IF @ = 0 THEN 1 ELSE 2]

\* helpers.py 58-66, as a relation on the registry: the five pops.
\* stream_sids is not among the collections of lines 60-64.
Teardown(c) ==
    /\ active_connections' = PopDefault(active_connections, c).map
    /\ twilio_queues' = PopDefault(twilio_queues, c).map
    /\ openai_queues' = PopDefault(openai_queues, c).map
    /\ interruption_events' = PopDefault(interruption_events, c).map
    /\ states' = PopDefault(states, c).map
    /\ stream_sids' = stream_sids
    /\ teardowns' = [teardowns EXCEPT ![c] = IF @ = 0 THEN 1 ELSE 2]

TeardownRaises(c) ==
    \/ PopDefault(active_connections, c).raised
    \/ PopDefault(twilio_queues, c).raised
    \/ PopDefault(openai_queues, c).raised
    \/ PopDefault(interruption_events, c).raised
    \/ PopDefault(states, c).raised

\* helpers.py 58-66: the synchronous method, called directly.
disconnect(c) ==
    /\ Teardown(c)
    /\ UNCHANGED << now, tasks >>
    /\ lastOp' = Op("disconnect", c,
                    IF TeardownRaises(c) THEN "KeyError" ELSE "none",
                    Registered(c), Nothing)

\* `await self.disconnect(client_id)` (helpers.py 149, 159, 189, 197 and
\* main.py 178): disconnect runs and returns None, and awaiting None raises
\* TypeError in the caller.
AwaitDisconnect(c) == Teardown(c)

\* send_json on a websocket whose client_state is not CONNECTED raises.
CanSend(c) == active_connections[c] = "open"

Touch(c, field, v) == Put(states, c, [states[c] EXCEPT ![field] = v])

\* helpers.py 199-205, with what process_media_packet's `except KeyError`
\* (111) does to it: the token is stored before the connection is looked up.
handle_twilio_start(c, sid) ==
    /\ stream_sids' = Put(stream_sids, c, sid)
    /\ UNCHANGED << active_connections, twilio_queues, openai_queues,
                    interruption_events, states, now, tasks, teardowns >>
    /\ lastOp' =
         IF c \notin DOMAIN active_connections
         THEN Op("process_media_packet", c, "none", Registered(c), Nothing)
         ELSE IF ~CanSend(c)
         THEN Op("process_media_packet", c, "RuntimeError", Registered(c), Nothing)
         ELSE Op("process_media_packet", c, "none", Registered(c),
                 Ev("connected", NoKey, NoKey, sid))

\* The step of a handler that an `except` clause ended: logged, nothing changed.
Caught(name, c) ==
    /\ UNCHANGED regVars
    /\ lastOp' = Op(name, c, "none", Registered(c), Nothing)

\* asyncio.Queue() with no maxsize: put never suspends.
Unbounded(q) == TRUE

\* asyncio.Queue(maxsize=100).put: suspends while the queue is full.
HasRoom(q) == Len(q) < QueueMaxSize

\* helpers.py 48-49, 102, 120: await queue.put(item), taken when HasRoom.
QueuePut(q, item) == Append(q, item)

\* helpers.py 94-112
process_media_packet(c, message) ==
    IF message.event = NoKey
    THEN Caught("process_media_packet", c)
    ELSE IF message.event = "start"
    THEN IF message.sid = NoKey
         THEN Caught("process_media_packet", c)
         ELSE handle_twilio_start(c, message.sid)
    ELSE IF message.event = "media" /\ message.data # NoKey
    THEN IF c \notin DOMAIN openai_queues
         THEN Caught("process_media_packet", c)
         ELSE /\ HasRoom(openai_queues[c])
              /\ openai_queues' =
                   Put(openai_queues, c,
                       QueuePut(openai_queues[c], AudioInputItem(message.data)))
              /\ states' = IF Registered(c)
                           THEN Touch(c, "last_activity", now)
                           ELSE states
              /\ UNCHANGED << active_connections, twilio_queues,
                              interruption_events, stream_sids, now, tasks, teardowns >>
              /\ lastOp' = Op("process_media_packet", c, "none",
                              Registered(c), Nothing)
    ELSE IF ~Registered(c)
    THEN Caught("process_media_packet", c)
    ELSE /\ states' = Touch(c, "last_activity", now)
         /\ UNCHANGED << active_connections, twilio_queues, openai_queues,
                         interruption_events, stream_sids, now, tasks, teardowns >>
         /\ lastOp' = Op("process_media_packet", c, "none", TRUE, Nothing)

\* helpers.py 114-138: every exception is caught at 137.
handle_openai_event(c, event) ==
    LET event_type == IF event.type = NoKey THEN "unknown" ELSE event.type
    IN
    IF event_type = "transcript"
    THEN IF c \notin DOMAIN twilio_queues \/ event.data = NoKey
         THEN Caught("handle_openai_event", c)
         ELSE /\ HasRoom(twilio_queues[c])
              /\ twilio_queues' =
                   Put(twilio_queues, c,
                       QueuePut(twilio_queues[c], ResponseItem(event.data)))
              /\ states' = IF Registered(c)
                           THEN Touch(c, "last_response", Some(now))
                           ELSE states
              /\ UNCHANGED << active_connections, openai_queues,
                              interruption_events, stream_sids, now, tasks, teardowns >>
              /\ lastOp' = Op("handle_openai_event", c, "none",
                              Registered(c), Nothing)
    ELSE IF event_type = "audio_output"
    THEN IF \/ c \notin DOMAIN active_connections
            \/ event.data = NoKey
            \/ ~CanSend(c)
            \/ ~Registered(c)
         THEN Caught("handle_openai_event", c)
         ELSE /\ states' = Touch(c, "last_response", Some(now))
              /\ UNCHANGED << active_connections, twilio_queues, openai_queues,
                              interruption_events, stream_sids, now, tasks, teardowns >>
              /\ lastOp' = Op("handle_openai_event", c, "none", TRUE,
                              Ev("media", NoKey, event.data, NoKey))
    ELSE IF ~Registered(c)
    THEN Caught("handle_openai_event", c)
    ELSE /\ states' = Touch(c, "last_response", Some(now))
         /\ UNCHANGED << active_connections, twilio_queues, openai_queues,
                         interruption_events, stream_sids, now, tasks, teardowns >>
         /\ lastOp' = Op("handle_openai_event", c, "none", TRUE, Nothing)

\* helpers.py 151-155, on the dictionary `state` of line 142.
NextCallStatus(state) ==
    IF state.call_ended THEN "terminated"
    ELSE IF state.media_counter > 0 THEN "active"
    ELSE state.call_status

\* helpers.py 140-159. The idle branch awaits disconnect (149) and is left by
\* the TypeError; so is the cleanup of a terminated call (159).
handle_state_updates(c) ==
    IF ~Registered(c)
    THEN Caught("handle_state_updates", c)
    ELSE IF Idle(c)
    THEN /\ AwaitDisconnect(c)
         /\ UNCHANGED << now, tasks >>
         /\ lastOp' = Op("handle_state_updates", c, "TypeError", TRUE, Nothing)
    ELSE IF NextCallStatus(states[c]) = "terminated"
    THEN /\ AwaitDisconnect(c)
         /\ UNCHANGED << now, tasks >>
         /\ lastOp' = Op("handle_state_updates", c, "TypeError", TRUE, Nothing)
    ELSE /\ states' = Touch(c, "call_status", NextCallStatus(states[c]))
         /\ UNCHANGED << active_connections, twilio_queues, openai_queues,
                         interruption_events, stream_sids, now, tasks, teardowns >>
         /\ lastOp' = Op("handle_state_updates", c, "none", TRUE, Nothing)

\* helpers.py 161-180: the head of the client's queue, or None. The KeyError
\* of a client without a queue (172-174) and the TimeoutError of an empty
\* queue (175-177) both end in `return None`.
get_twilio_event(queues, c) ==
    IF c \notin DOMAIN queues
    THEN None
    ELSE IF queues[c] = << >>
    THEN None
    ELSE Some(Head(queues[c]))

\* main.py 115-122: one turn of forward_twilio_media's loop. An event that
\* get_twilio_event returns has left the queue (a media event is sent to the
\* AI connection, any other is discarded); on None the turn only sleeps.
forward_twilio_media(c) ==
    LET message == get_twilio_event(twilio_queues, c) IN
    /\ twilio_queues' = IF message = None
                        THEN twilio_queues
                        ELSE Put(twilio_queues, c, Tail(twilio_queues[c]))
    /\ UNCHANGED << active_connections, openai_queues, interruption_events,
                    states, stream_sids, now, tasks, teardowns >>
    /\ lastOp' = Op("forward_twilio_media", c, "none", Registered(c), Nothing)

\* main.py 172-181: the TypeError of the await is caught at 180.
cleanup_client(c) ==
    /\ Registered(c)
    /\ AwaitDisconnect(c)
    /\ UNCHANGED << now, tasks >>
    /\ lastOp' = Op("cleanup_client", c, "none", TRUE, Nothing)

\* starlette's WebSocket.accept(), on the websocket's application_state: the
\* first call moves it from CONNECTING to CONNECTED; a call in any other
\* state raises RuntimeError.
Accept(application_state) ==
    IF application_state = "CONNECTING"
    THEN [state |-> "CONNECTED", raised |-> FALSE]
    ELSE [state |-> application_state, raised |-> TRUE]

\* main.py 38-79, up to the registration: the handler accepts the websocket
\* (49) and then calls connect (53), whose first line accepts it again
\* (helpers.py 46). The RuntimeError of that accept is caught at 74, and the
\* cleanup_client of 79 finds no state (main.py 176).
handle_media_stream(c) ==
    LET first == Accept("CONNECTING")
        second == Accept(first.state)
    IN
    /\ c \notin DOMAIN active_connections
    /\ IF second.raised
       THEN /\ UNCHANGED regVars
            /\ lastOp' = Op("handle_media_stream", c, "none", FALSE, Nothing)
       ELSE connect(c)

\* ------------------------------------------------------- background tasks
TaskNames == {"monitor_queues", "process_media_packets",
              "check_websocket_health", "monitor_connections"}

\* main.py 30-35: the tasks startup_event creates. monitor_connections is
\* not among them.
StartedTasks == {"monitor_queues", "process_media_packets",
                 "check_websocket_health"}

startup_event ==
    /\ \A t \in TaskNames : tasks[t] = "not_started"
    /\ tasks' = [t \in TaskNames |->
                   IF t \in StartedTasks THEN "running" ELSE "not_started"]
    /\ UNCHANGED << active_connections, twilio_queues, openai_queues,
                    interruption_events, states, stream_sids, now, teardowns >>
    /\ lastOp' = Op("startup_event", NoClient, "none", FALSE, Nothing)

Running(t) == tasks[t] = "running"

\* helpers.py 68-79: one turn of the loop, which has no await between the
\* snapshot of line 72 and the last id. For every id of active_connections
\* it indexes twilio_queues and openai_queues (73-74), reads the sizes and
\* logs; an id missing from either map is a KeyError that ends the task.
monitor_queues ==
    /\ Running("monitor_queues")
    /\ LET missing == \E c \in DOMAIN active_connections :
                         c \notin DOMAIN twilio_queues
                             \/ c \notin DOMAIN openai_queues
       IN /\ tasks' = IF missing
                      THEN [tasks EXCEPT !["monitor_queues"] = "crashed"]
                      ELSE tasks
          /\ lastOp' = Op("monitor_queues", NoClient,
                          IF missing THEN "KeyError" ELSE "none",
                          FALSE, Nothing)
    /\ UNCHANGED << active_connections, twilio_queues, openai_queues,
                    interruption_events, states, stream_sids, now, teardowns >>

\* helpers.py 191-197: one turn of the loop, which has no await but the one
\* of line 197. The first client found not CONNECTED is disconnected, and the
\* TypeError of the await ends the task.
check_websocket_health ==
    /\ Running("check_websocket_health")
    /\ IF \E c \in DOMAIN active_connections : active_connections[c] # "open"
       THEN \E c \in DOMAIN active_connections :
              /\ active_connections[c] # "open"
              /\ AwaitDisconnect(c)
              /\ tasks' = [tasks EXCEPT !["check_websocket_health"] = "crashed"]
              /\ UNCHANGED now
              /\ lastOp' = Op("check_websocket_health", c, "TypeError",
                              Registered(c), Nothing)
       ELSE /\ UNCHANGED regVars
            /\ lastOp' = Op("check_websocket_health", NoClient, "none",
                            FALSE, Nothing)

\* helpers.py 182-189: one turn of the loop, run by whoever awaits the
\* coroutine; no task of the service does (main.py 33-35).
monitor_connections ==
    IF \E c \in DOMAIN states : Idle(c)
    THEN \E c \in DOMAIN states :
           /\ Idle(c)
           /\ AwaitDisconnect(c)
           /\ UNCHANGED << now, tasks >>
           /\ lastOp' = Op("monitor_connections", c, "TypeError", TRUE, Nothing)
    ELSE /\ UNCHANGED regVars
         /\ lastOp' = Op("monitor_connections", NoClient, "none", FALSE, Nothing)

\* ------------------------------------------------------------ environment
\* datetime.now() moves on.
Tick ==
    /\ now + TickSeconds <= MaxTicks * TickSeconds
    /\ now' = now + TickSeconds
    /\ UNCHANGED << active_connections, twilio_queues, openai_queues,
                    interruption_events, states, stream_sids, tasks, teardowns >>
    /\ lastOp' = Op("tick", NoClient, "none", FALSE, Nothing)

\* The telephony peer goes away: client_state (helpers.py 195) is no longer 1.
ws_close(c) ==
    /\ c \in DOMAIN active_connections
    /\ active_connections[c] = "open"
    /\ active_connections' = Put(active_connections, c, "closed")
    /\ UNCHANGED << twilio_queues, openai_queues, interruption_events,
                    states, stream_sids, now, tasks, teardowns >>
    /\ lastOp' = Op("ws_close", c, "none", Registered(c), Nothing)

Backlog(m, c) == IF c \in DOMAIN m THEN Len(m[c]) ELSE 0

\* The events the environment delivers while the model's backlog bound holds.
Delivers(c, e) ==
    /\ (e.type = "transcript" => Backlog(twilio_queues, c) < MaxBacklog)
    /\ (e.event = "media" => Backlog(openai_queues, c) < MaxBacklog)

\* ----------------------------------------------------- the registry's spec
RegistryInit ==
    /\ ManagerInit
    /\ now = 0
    /\ tasks = [t \in TaskNames |-> "not_started"]
    /\ teardowns = [c \in Clients |-> 0]
    /\ lastOp = Op("init", NoClient, "none", FALSE, Nothing)

\* ------------------------------------------------------- the call workflow
\* call_agent.py 21-56: the nodes of the graph, with END, and the two ways a
\* run stops short of END.
Nodes == {"receive_twilio", "process_ai", "handle_emergency", "save_data"}
NodeValues == Nodes \cup {"not_started", "END", "aborted"}

\* run: about to execute `node`; get: suspended in the queue's get() of
\* `node`; update: the node returned and handle_state_updates is due
\* (main.py 166-167); orphaned: suspended in get() of a queue that
\* disconnect took out of the registry, which no producer can reach any more.
WorkflowPcs == {"run", "get", "update", "orphaned"}

\* state.py 6-54, the fields the workflow reads or writes.
NewCallState(c) ==
    [client_id |-> c, transcripts |-> << >>, call_ended |-> FALSE,
     escalated |-> FALSE]

\* call_agent.py 102-105
route_twilio(state) == IF state.call_ended THEN "save_data" ELSE "process_ai"

\* call_agent.py 107-110
route_ai(state) == IF state.escalated THEN "handle_emergency" ELSE "receive_twilio"

\* call_agent.py 112-113
route_emergency(state) == IF state.call_ended THEN "save_data" ELSE "receive_twilio"

\* call_agent.py 62-66 and 79-83, without the timestamp.
Entry(role, text) == [role |-> role, text |-> text]

\* An append that hands back a new CallState with only the transcript kept.
AppendToNew(state, role, text) ==
    [NewCallState(state.client_id) EXCEPT
        !.transcripts = Append(state.transcripts, Entry(role, text))]

AppendEntry(state, role, text) ==
    [state EXCEPT !.transcripts = Append(@, Entry(role, text))]

ghostVars == << telephony_fed, stop_fed, ai_fed, ai_arrivals >>

\* main.py 163-166: the workflow is started for a registered client. (With
\* no state registered, line 166 raises KeyError and nothing runs.)
run_agent_workflow(c) ==
    /\ node = "not_started"
    /\ Registered(c)
    /\ node' = "receive_twilio"
    /\ wf_pc' = "run"
    /\ call_state' = NewCallState(c)
    /\ UNCHANGED << persisted, ended_at_persist, esc_seen, ghostVars >>
    /\ UNCHANGED regVars
    /\ lastOp' = Op("run_agent_workflow", c, "none", TRUE, Nothing)

\* The node's coroutine can take a step: it is about to run, or it is
\* suspended in get() and its queue, still registered, holds an event.
CanStep(n, queues) ==
    /\ node = n
    /\ \/ wf_pc = "run"
       \/ /\ wf_pc = "get"
          /\ call_state.client_id \in DOMAIN queues
          /\ queues[call_state.client_id] # << >>

\* call_agent.py 58-71
process_twilio ==
    LET c == call_state.client_id IN
    /\ CanStep("receive_twilio", twilio_queues)
    /\ UNCHANGED << persisted, ended_at_persist, esc_seen, ghostVars >>
    /\ IF c \notin DOMAIN twilio_queues
       THEN \* KeyError at 60, caught at 69
            /\ node' = route_twilio(call_state)
            /\ wf_pc' = "update"
            /\ UNCHANGED << call_state, regVars >>
            /\ lastOp' = Op("process_twilio", c, "KeyError", Registered(c), Nothing)
       ELSE IF twilio_queues[c] = << >>
       THEN /\ wf_pc' = "get"
            /\ UNCHANGED << node, call_state, regVars >>
            /\ lastOp' = Op("process_twilio.get", c, "none", Registered(c), Nothing)
       ELSE LET data == Head(twilio_queues[c])
                after == IF data.event = "media"
                         THEN AppendEntry(call_state, "user", "Audio input")
                         ELSE IF data.event = "stop"
                         THEN [call_state EXCEPT !.call_ended = TRUE]
                         ELSE call_state
            IN /\ twilio_queues' = Put(twilio_queues, c, Tail(twilio_queues[c]))
               /\ call_state' = after
               /\ node' = route_twilio(after)
               /\ wf_pc' = "update"
               /\ UNCHANGED << active_connections, openai_queues,
                               interruption_events, states, stream_sids, now,
                               tasks, teardowns >>
               /\ lastOp' = Op("process_twilio", c, "none", Registered(c), Nothing)

\* call_agent.py 73-92: one turn of the `while True`, up to the await it
\* stops at. The loop has no break and no return: the node returns (92) only
\* from the `except` of line 89.
process_ai ==
    LET c == call_state.client_id IN
    /\ CanStep("process_ai", openai_queues)
    /\ UNCHANGED << persisted, ended_at_persist, ghostVars >>
    /\ IF c \notin DOMAIN openai_queues
       THEN \* KeyError at 76
            /\ node' = route_ai(call_state)
            /\ wf_pc' = "update"
            /\ UNCHANGED << call_state, esc_seen, regVars >>
            /\ lastOp' = Op("process_ai", c, "KeyError", Registered(c), Nothing)
       ELSE IF openai_queues[c] = << >>
       THEN /\ wf_pc' = "get"
            /\ UNCHANGED << node, call_state, esc_seen, regVars >>
            /\ lastOp' = Op("process_ai.get", c, "none", Registered(c), Nothing)
       ELSE LET event == Head(openai_queues[c]) IN
            /\ openai_queues' = Put(openai_queues, c, Tail(openai_queues[c]))
            /\ UNCHANGED << active_connections, twilio_queues,
                            interruption_events, states, stream_sids, now,
                            tasks, teardowns >>
            /\ IF event.type # "response.done"
               THEN \* 88: sleep, then the next turn
                    /\ wf_pc' = "run"
                    /\ UNCHANGED << node, call_state, esc_seen >>
                    /\ lastOp' = Op("process_ai.turn", c, "none", Registered(c), Nothing)
               ELSE IF event.data = NoKey
               THEN \* 78: the path into the event is not there
                    /\ node' = route_ai(call_state)
                    /\ wf_pc' = "update"
                    /\ UNCHANGED << call_state, esc_seen >>
                    /\ lastOp' = Op("process_ai", c, "KeyError", Registered(c), Nothing)
               ELSE LET after == AppendEntry(call_state, "assistant", event.data) IN
                    /\ call_state' = after
                    /\ esc_seen' = (esc_seen \/ event.data = EscalationText)
                    /\ IF CanSend(c)
                       THEN /\ wf_pc' = "run"
                            /\ node' = node
                            /\ lastOp' = Op("process_ai.turn", c, "none", Registered(c),
                                            Ev("response", NoKey, event.data, NoKey))
                       ELSE \* 84: send_json raises
                            /\ node' = route_ai(after)
                            /\ wf_pc' = "update"
                            /\ lastOp' = Op("process_ai", c, "RuntimeError",
                                            Registered(c), Nothing)

\* call_agent.py 94-100. send_json is outside any try: its exception leaves
\* the workflow and is caught by run_agent_workflow (main.py 168).
handle_emergency ==
    LET c == call_state.client_id
        after == [call_state EXCEPT !.escalated = TRUE]
    IN
    /\ node = "handle_emergency"
    /\ wf_pc = "run"
    /\ call_state' = after
    /\ UNCHANGED << persisted, ended_at_persist, esc_seen, ghostVars >>
    /\ UNCHANGED regVars
    /\ IF c \in DOMAIN active_connections /\ CanSend(c)
       THEN /\ node' = route_emergency(after)
            /\ wf_pc' = "update"
            /\ lastOp' = Op("handle_emergency", c, "none", Registered(c),
                            Ev("escalate", NoKey, NoKey, NoKey))
       ELSE /\ node' = "aborted"
            /\ wf_pc' = "run"
            /\ lastOp' = Op("handle_emergency", c,
                            IF c \in DOMAIN active_connections
                            THEN "RuntimeError" ELSE "KeyError",
                            Registered(c), Nothing)

\* state.py 58-96, without the transcript and the two timestamps, which no
\* handler reads or passes by keyword.
NewTicketState ==
    [completion |-> None, parsed_response |-> None, error |-> None,
     status |-> "pending"]

\* langgraph's ToolNode runs the tool calls of the last message under the
\* state's `messages`. CallState (state.py 6-54) has no such field and no
\* handler writes a tool call, so the node finds none.
ToolCalls(state) ==
    IF "messages" \in DOMAIN state THEN state.messages ELSE << >>

\* call_agent.py 31-32, 53: the save_data node is entered. It is
\* ToolNode([save_transcript]): with a tool call it calls save_transcript,
\* which starts the ticket workflow (transcript_tools.py 32, ticket_tools.py
\* 157-165), and the edge of 53 leads to END; with none it raises ValueError,
\* which ends the run (main.py 168).
save_data ==
    /\ node = "save_data"
    /\ wf_pc = "run"
    /\ persisted' = IF persisted = 0 THEN 1 ELSE 2
    /\ ended_at_persist' = call_state.call_ended
    /\ UNCHANGED << call_state, esc_seen, ghostVars >>
    /\ UNCHANGED regVars
    /\ IF ToolCalls(call_state) # << >>
       THEN /\ node' = "END"
            /\ wf_pc' = "update"
            /\ tk_node' = "generate"
            /\ tk_state' = NewTicketState
            /\ tk_entry' = TRUE
            /\ UNCHANGED << tk_api, tk_result >>
            /\ lastOp' = Op("save_data", call_state.client_id, "none",
                            Registered(call_state.client_id), Nothing)
       ELSE /\ node' = "aborted"
            /\ wf_pc' = "run"
            /\ UNCHANGED tkVars
            /\ lastOp' = Op("save_data", call_state.client_id, "ValueError",
                            Registered(call_state.client_id), Nothing)

\* main.py 166-169: after each node, handle_state_updates; an exception of
\* it ends the run.
workflow_update ==
    /\ wf_pc = "update"
    /\ handle_state_updates(call_state.client_id)
    /\ wf_pc' = "run"
    /\ node' = IF lastOp'.raised # "none" THEN "aborted" ELSE node
    /\ UNCHANGED << call_state, persisted, ended_at_persist, esc_seen, ghostVars >>

\* What a teardown does to a suspended run.
Orphan == IF wf_pc = "get" THEN "orphaned" ELSE wf_pc

\* ------------------------------------------------- the workflow's producers
\* An inbound telephony event is placed on the call's telephony queue, from
\* which process_twilio reads it. The stream is media events and then a stop.
feed_telephony(c, m) ==
    /\ c \in DOMAIN twilio_queues
    /\ ~stop_fed
    /\ telephony_fed < MaxFeed
    /\ Backlog(twilio_queues, c) < MaxBacklog
    /\ HasRoom(twilio_queues[c])
    /\ twilio_queues' = Put(twilio_queues, c, QueuePut(twilio_queues[c], m))
    /\ telephony_fed' = telephony_fed + 1
    /\ stop_fed' = (m.event = "stop")
    /\ UNCHANGED << active_connections, openai_queues, interruption_events,
                    states, stream_sids, now, tasks, teardowns >>
    /\ UNCHANGED << node, wf_pc, call_state, persisted, ended_at_persist,
                    ai_fed, ai_arrivals, esc_seen >>
    /\ lastOp' = Op("feed_telephony", c, "none", Registered(c), Nothing)

\* An inbound AI event is placed on the call's AI queue, from which
\* process_ai reads it.
feed_ai(c, e) ==
    /\ c \in DOMAIN openai_queues
    /\ ai_fed < MaxFeed
    /\ Backlog(openai_queues, c) < MaxBacklog
    /\ HasRoom(openai_queues[c])
    /\ openai_queues' = Put(openai_queues, c, QueuePut(openai_queues[c], e))
    /\ ai_fed' = ai_fed + 1
    /\ UNCHANGED << active_connections, twilio_queues, interruption_events,
                    states, stream_sids, now, tasks, teardowns >>
    /\ UNCHANGED << node, wf_pc, call_state, persisted, ended_at_persist,
                    telephony_fed, stop_fed, ai_arrivals, esc_seen >>
    /\ lastOp' = Op("feed_ai", c, "none", Registered(c), Nothing)

TelephonyFeed == {TwilioMedia(p) : p \in Payloads} \cup {TwilioStop}
AiFeed == {AiResponseDone(t) : t \in Texts \cup {NoKey}} \cup {AiOther}

\* main.py 153-160: a finalized AI response arrives on the AI connection.
handle_openai_messages(c, e) ==
    /\ Len(ai_arrivals) < MaxArrivals
    /\ Delivers(c, e)
    /\ handle_openai_event(c, e)
    /\ ai_arrivals' = IF Registered(c) THEN Append(ai_arrivals, e.data)
                      ELSE ai_arrivals
    /\ UNCHANGED << node, wf_pc, call_state, persisted, ended_at_persist,
                    telephony_fed, stop_fed, ai_fed, esc_seen >>

AiArrivals == {AiTranscript(t) : t \in Texts} \cup {AiResponseDone(t) : t \in Texts}

\* ------------------------------------------------------ the call's stream
\* main.py 129-133: the tasks process_client_stream creates for a call.
CallTaskNames == {"forward_twilio_media", "handle_openai_messages",
                  "run_agent_workflow"}

\* packets_pc is "run" between two turns of process_media_packets (the sleep
\* of helpers.py 84), "get" while it is suspended in the get() of helpers.py
\* 87, which has no timeout, and "orphaned" while it is suspended in get() of
\* a queue that disconnect took out of the registry.
StreamInit ==
    /\ call_tasks = [t \in CallTaskNames |-> "not_started"]
    /\ openai_ws = "none"
    /\ packets_pc = "run"

\* main.py 59-61 and 126-134: with the AI connection open, the three tasks
\* of the call are created.
process_client_stream(c) ==
    /\ Registered(c)
    /\ \A t \in CallTaskNames : call_tasks[t] = "not_started"
    /\ call_tasks' = [t \in CallTaskNames |-> "running"]
    /\ openai_ws' = "open"
    /\ UNCHANGED << packets_pc, regVars, wfVars, tkVars >>
    /\ lastOp' = Op("process_client_stream", c, "none", TRUE, Nothing)

\* main.py 113-124: a turn of the task. The loop has no exit of its own: the
\* task returns (123) when the send of 118 raises, which a closed AI
\* connection makes it do, or when the media event has no payload (120).
forward_task(c) ==
    LET message == get_twilio_event(twilio_queues, c)
        raises == /\ message # None
                  /\ message[1].event = "media"
                  /\ (openai_ws = "closed" \/ message[1].data = NoKey)
    IN
    /\ call_tasks["forward_twilio_media"] = "running"
    /\ forward_twilio_media(c)
    /\ call_tasks' = [call_tasks EXCEPT !["forward_twilio_media"] =
                         IF raises THEN "exited" ELSE @]
    /\ UNCHANGED << openai_ws, packets_pc, wfVars, tkVars >>

\* main.py 153-160: a message of the AI connection is handed to
\* handle_openai_event.
openai_task(c, e) ==
    /\ call_tasks["handle_openai_messages"] = "running"
    /\ handle_openai_messages(c, e)
    /\ UNCHANGED << streamVars, tkVars >>

\* The AI peer goes away: the `async for` of main.py 156 ends and
\* handle_openai_messages returns.
openai_ws_close ==
    /\ openai_ws = "open"
    /\ openai_ws' = "closed"
    /\ call_tasks' = [call_tasks EXCEPT !["handle_openai_messages"] = "exited"]
    /\ UNCHANGED << packets_pc, regVars, wfVars, tkVars >>
    /\ lastOp' = Op("openai_ws_close", NoClient, "none", FALSE, Nothing)

\* main.py 163-169: a step of the workflow's task. run_agent_workflow returns
\* when the workflow's stream is over (END) or has raised.
WorkflowTask ==
    /\ call_tasks["run_agent_workflow"] = "running"
    /\ call_tasks' = [call_tasks EXCEPT !["run_agent_workflow"] =
                         IF node' \in {"END", "aborted"} /\ wf_pc' = "run"
                         THEN "exited" ELSE @]
    /\ UNCHANGED << openai_ws, packets_pc >>

\* helpers.py 81-92 with 94-112: process_media_packets up to its next await,
\* for a client found among the queues' keys (85); the client is then
\* registered. The KeyError of an event without 'event' is caught at 111,
\* the RuntimeError of a send at 91.
process_media_packets ==
    /\ Running("process_media_packets")
    /\ \E c \in DOMAIN twilio_queues :
         IF twilio_queues[c] = << >>
         THEN /\ packets_pc = "run"
              /\ packets_pc' = "get"
              /\ UNCHANGED regVars
              /\ lastOp' = Op("process_media_packets.get", c, "none",
                              Registered(c), Nothing)
         ELSE LET message == Head(twilio_queues[c])
                  starts == message.event = "start" /\ message.sid # NoKey
                  forwards == message.event = "media" /\ message.data # NoKey
                  touches == message.event \notin {NoKey, "start"}
              IN /\ packets_pc \in {"run", "get"}
                 /\ forwards => HasRoom(openai_queues[c])
                 /\ packets_pc' = "run"
                 /\ twilio_queues' = Put(twilio_queues, c, Tail(twilio_queues[c]))
                 /\ openai_queues' =
                      IF forwards
                      THEN Put(openai_queues, c,
                               QueuePut(openai_queues[c],
                                        AudioInputItem(message.data)))
                      ELSE openai_queues
                 /\ stream_sids' = IF starts
                                   THEN Put(stream_sids, c, message.sid)
                                   ELSE stream_sids
                 /\ states' = IF touches
                              THEN Touch(c, "last_activity", now)
                              ELSE states
                 /\ UNCHANGED << active_connections, interruption_events,
                                 now, tasks, teardowns >>
                 /\ lastOp' = Op("process_media_packets", c, "none",
                                 Registered(c),
                                 IF starts /\ CanSend(c)
                                 THEN Ev("connected", NoKey, NoKey, message.sid)
                                 ELSE Nothing)

\* What a teardown does to process_media_packets when it is suspended.
PacketsOrphan == IF packets_pc = "get" THEN "orphaned" ELSE packets_pc

\* ----------------------------------------------------- the ticket workflow
\* state.py 93
AllowedStatus == {"pending", "processing", "completed", "failed"}

\* How a call ended: with the value it returned, or with an exception.
Return(s) == [raised |-> FALSE, exc |-> "none", message |-> NoKey, value |-> s]
Raise(e, msg) == [raised |-> TRUE, exc |-> e, message |-> msg, value |-> NoKey]

\* str(e): the text, and the field names a "Missing required fields" message
\* lists.
Message(text) == [text |-> text, fields |-> << >>]

Merge(d, kw) ==
    [f \in DOMAIN d \cup DOMAIN kw |-> IF f \in DOMAIN kw THEN kw[f] ELSE d[f]]

\* state.py 91-96 under pydantic's construction
Validated(fields) ==
    IF fields.status \notin AllowedStatus
    THEN Raise("ValidationError", Message("Invalid status"))
    ELSE Return(fields)

\* TicketState(**{**state.dict(), **kw}): the keywords override the fields.
TicketStateMerged(d, kw) == Validated(Merge(d, kw))

\* ticket_tools.py 31-35, 38-41, 52-56, 59-62, 81-89, 113-116, 120-123:
\* TicketState(**state.dict(), name=value, ...). A keyword that state.dict()
\* already holds is a TypeError of the call, before pydantic runs.
TicketStateNew(d, kw) ==
    IF DOMAIN d \cap DOMAIN kw # {}
    THEN Raise("TypeError", Message("got multiple values for keyword argument"))
    ELSE Validated(Merge(d, kw))

\* {"message": str(e), "type": e.__class__.__name__}
ErrorOf(failure) == Some([message |-> failure.message, type |-> failure.exc])

\* The `except Exception` of lines 36-41, 57-62 and 118-123 around `attempt`.
OrError(state, attempt) ==
    IF attempt.raised
    THEN TicketStateNew(state, [error |-> ErrorOf(attempt)])
    ELSE attempt

\* What the classification backend can answer: a text, fenced or not, that
\* is a JSON object or is not JSON.
\* A JSON null, which json.loads gives as Python's None.
JsonNull == "<null>"

Priorities == {"high", "medium", "low", "HIGH", "urgent", JsonNull}
Locations == {"123 Main St"}
TicketTypes == {"fire"}
JsonObjects ==
    {[priority |-> p, location |-> l, ticket_type |-> t] :
        p \in Priorities \cup {NoKey},
        l \in Locations \cup {NoKey},
        t \in TicketTypes \cup {NoKey}}

NoObject == [priority |-> NoKey, location |-> NoKey, ticket_type |-> NoKey]

\* json: whether the text inside the fences is JSON, and then `body` is the
\* object it denotes.
Contents ==
    {[fenced |-> f, json |-> TRUE, body |-> b] : f \in BOOLEAN, b \in JsonObjects}
        \cup {[fenced |-> f, json |-> FALSE, body |-> NoObject] : f \in BOOLEAN}

NoContent == [fenced |-> FALSE, json |-> FALSE, body |-> NoObject]

\* ok: the request returned `content`; otherwise it raised.
ApiOutcomes ==
    {[ok |-> TRUE, content |-> c] : c \in Contents}
        \cup {[ok |-> FALSE, content |-> NoContent]}

\* ticket_tools.py 21-41
generate_classification(state, api) ==
    OrError(state,
            IF api.ok
            THEN TicketStateNew(state, [completion |-> Some(api.content),
                                        error |-> None])
            ELSE Raise("APIError", Message("request failed")))

\* ticket_tools.py 50: the fences are taken out of the text.
Clean(content) == [content EXCEPT !.fenced = FALSE]

\* str.lower() on the priorities at hand
Lower(p) == IF p = "HIGH" THEN "high" ELSE p

\* ticket_tools.py 72: response.get("priority", "") is None for a priority
\* that is present and null, and None.lower() raises AttributeError.
ScoreDefined(response) == response.priority # JsonNull

\* ticket_tools.py 71-73, where ScoreDefined.
SeverityScore(response) ==
    LET p == IF response.priority = NoKey THEN "" ELSE Lower(response.priority)
    IN CASE p = "high" -> 3
         [] p = "medium" -> 2
         [] p = "low" -> 1
         [] OTHER -> 0

\* "TICKET-" and the first eight hex digits of a uuid4, in upper case.
TicketIds == {"TICKET-0A1B2C3D"}

\* ticket_tools.py 65-74, without received_at.
add_metadata(response, id) ==
    [priority |-> response.priority, location |-> response.location,
     ticket_type |-> response.ticket_type, ticket_id |-> id,
     severity_score |-> SeverityScore(response)]

\* ticket_tools.py 44-62
parse_response(state, id) ==
    IF state.error # None
    THEN Return(state)
    ELSE OrError(state,
           IF state.completion = None
           THEN Raise("AttributeError",
                      Message("'NoneType' object has no attribute 'replace'"))
           ELSE LET cleaned == Clean(state.completion[1]) IN
                IF cleaned.fenced \/ ~cleaned.json
                THEN Raise("JSONDecodeError", Message("Expecting value"))
                ELSE IF ~ScoreDefined(cleaned.body)
                THEN Raise("AttributeError",
                           Message("'NoneType' object has no attribute 'lower'"))
                ELSE TicketStateNew(state,
                       [parsed_response |-> Some(add_metadata(cleaned.body, id)),
                        error |-> None]))

\* ticket_tools.py 77-90
handle_error(state) ==
    IF state.error # None
    THEN TicketStateNew(state,
           [parsed_response |-> Some([error |-> state.error[1].message,
                                      error_type |-> state.error[1].type,
                                      status |-> "failed"]),
            status |-> "failed"])
    ELSE Return(state)

\* `field in response`
HasKey(response, f) == f \in DOMAIN response /\ response[f] # NoKey

\* ticket_tools.py 102
RequiredFields == << "priority", "location", "ticket_type" >>

\* ticket_tools.py 103
Missing(response) ==
    SelectSeq(RequiredFields, LAMBDA f : ~HasKey(response, f))

\* ticket_tools.py 106: the message names the fields, joined by ", ".
MissingMessage(missing) == [text |-> "Missing required fields", fields |-> missing]

\* ticket_tools.py 95-123
firebase_upload(state) ==
    IF state.error # None \/ state.parsed_response = None
    THEN Return(state)
    ELSE OrError(state,
           LET missing == Missing(state.parsed_response[1]) IN
           IF missing # << >>
           THEN Raise("ValueError", MissingMessage(missing))
           ELSE TicketStateNew(state, [status |-> "uploaded"]))

\* A router that does not look at error.
RouteOnward(state, next) == next

\* ticket_tools.py 137-149
RouteOnError(state, next) == IF state.error # None THEN "handle_errors" ELSE next

TicketNodes == {"generate", "parse", "upload", "handle_errors"}

\* ticket_tools.py 165-174: a node that returns hands its state to the next
\* node; at END the run returns parsed_response or the unknown_error
\* dictionary; an exception of a node leaves ainvoke and is answered with the
\* system_error dictionary.
TicketStep(outcome, next) ==
    /\ lastOp' = Op(tk_node, NoClient,
                    IF outcome.raised THEN outcome.exc ELSE "none",
                    FALSE, Nothing)
    /\ IF outcome.raised
       THEN /\ tk_node' = "raised"
            /\ tk_state' = tk_state
            /\ tk_result' = Some([error |-> outcome.message,
                                  error_type |-> outcome.exc,
                                  status |-> "system_error"])
       ELSE /\ tk_node' = next
            /\ tk_state' = outcome.value
            /\ tk_result' = IF next # "END" THEN None
                            ELSE IF outcome.value.parsed_response # None
                            THEN outcome.value.parsed_response
                            ELSE Some([status |-> "unknown_error"])

ticket_generate(api) ==
    LET outcome == generate_classification(tk_state, api) IN
    /\ tk_node = "generate"
    /\ tk_api' = IF tk_entry THEN Some(api) ELSE None
    /\ TicketStep(outcome,
                  IF outcome.raised THEN "raised"
                  ELSE RouteOnError(outcome.value, "parse"))
    /\ UNCHANGED << tk_entry, regVars, wfVars, streamVars >>

ticket_parse(id) ==
    LET outcome == parse_response(tk_state, id) IN
    /\ tk_node = "parse"
    /\ TicketStep(outcome,
                  IF outcome.raised THEN "raised"
                  ELSE RouteOnError(outcome.value, "upload"))
    /\ UNCHANGED << tk_entry, tk_api, regVars, wfVars, streamVars >>

ticket_upload ==
    LET outcome == firebase_upload(tk_state) IN
    /\ tk_node = "upload"
    /\ TicketStep(outcome,
                  IF outcome.raised THEN "raised"
                  ELSE RouteOnError(outcome.value, "END"))
    /\ UNCHANGED << tk_entry, tk_api, regVars, wfVars, streamVars >>

ticket_handle_errors ==
    /\ tk_node = "handle_errors"
    /\ TicketStep(handle_error(tk_state), "END")
    /\ UNCHANGED << tk_entry, tk_api, regVars, wfVars, streamVars >>

\* No ticket run.
TicketInit ==
    /\ tk_node = "not_started"
    /\ tk_state = NewTicketState
    /\ tk_entry = FALSE
    /\ tk_api = None
    /\ tk_result = None

\* The TicketStates a handler can be handed: every value of every field that
\* the validators of state.py let through.
ErrorValues ==
    {None, Some([message |-> Message("Expecting value"), type |-> "JSONDecodeError"])}

ParsedValues ==
    {None} \cup {Some(add_metadata(r, id)) :
                     r \in {o \in JsonObjects : ScoreDefined(o)}, id \in TicketIds}
           \cup {Some([error |-> Message("Expecting value"),
                       error_type |-> "JSONDecodeError", status |-> "failed"])}

TicketStates ==
    {[completion |-> c, parsed_response |-> p, error |-> e, status |-> s] :
        c \in {None} \cup {Some(x) : x \in Contents},
        p \in ParsedValues, e \in ErrorValues, s \in AllowedStatus}

\* ticket_tools.py 161-165: classify_and_create_ticket starts the run at
\* `generate` with a new TicketState (tk_entry); besides, each handler is
\* applied to each TicketState.
TicketInputs ==
    /\ tk_node \in TicketNodes
    /\ tk_state \in TicketStates
    /\ tk_entry = (tk_node = "generate" /\ tk_state = NewTicketState)
    /\ tk_api = None
    /\ tk_result = None

TicketNext ==
    \/ \E api \in ApiOutcomes : ticket_generate(api)
    \/ \E id \in TicketIds : ticket_parse(id)
    \/ ticket_upload
    \/ ticket_handle_errors

\* ------------------------------------------------------------------ specs
WorkflowInit ==
    /\ node = "not_started"
    /\ wf_pc = "run"
    /\ call_state = NewCallState(NoClient)
    /\ persisted = 0
    /\ ended_at_persist = FALSE
    /\ telephony_fed = 0
    /\ stop_fed = FALSE
    /\ ai_fed = 0
    /\ ai_arrivals = << >>
    /\ esc_seen = FALSE

Init ==
    /\ RegistryInit
    /\ WorkflowInit
    /\ TicketInit
    /\ StreamInit

\* What the running service does (main.py): its tasks, its handlers, its
\* peers; no workflow runs.
ServiceNext ==
    \/ startup_event /\ UNCHANGED runVars
    \/ \E c \in Clients : connect(c) /\ UNCHANGED runVars
    \/ \E c \in Clients : handle_media_stream(c) /\ UNCHANGED runVars
    \/ \E c \in Clients, e \in OpenaiEvents :
         Delivers(c, e) /\ handle_openai_event(c, e) /\ UNCHANGED runVars
    \/ \E c \in Clients : forward_twilio_media(c) /\ UNCHANGED runVars
    \/ \E c \in Clients : handle_state_updates(c) /\ UNCHANGED runVars
    \/ \E c \in Clients : cleanup_client(c) /\ UNCHANGED runVars
    \/ \E c \in Clients : ws_close(c) /\ UNCHANGED runVars
    \/ monitor_queues /\ UNCHANGED runVars
    \/ check_websocket_health /\ UNCHANGED runVars
    \/ Tick /\ UNCHANGED runVars

\* Every operation of the manager, called in any order with any argument.
Next ==
    \/ ServiceNext
    \/ \E c \in Clients : disconnect(c) /\ UNCHANGED runVars
    \/ \E c \in Clients, m \in TwilioMessages :
         Delivers(c, m) /\ process_media_packet(c, m) /\ UNCHANGED runVars
    \/ monitor_connections /\ UNCHANGED runVars

Spec == Init /\ [][Next]_vars

\* The ticket workflow alone: its handlers on every TicketState.
TicketInputInit ==
    /\ RegistryInit
    /\ WorkflowInit
    /\ TicketInputs
    /\ StreamInit

TicketSpec == TicketInputInit /\ [][TicketNext]_vars

\* One call: its registration, its workflow run, the events that reach its
\* queues, the peer going away and the cleanup of main.py 172-181.
CallNext ==
    \/ \E c \in Clients : connect(c) /\ UNCHANGED runVars
    \/ \E c \in Clients : run_agent_workflow(c) /\ UNCHANGED restVars
    \/ \E c \in Clients, m \in TelephonyFeed :
         feed_telephony(c, m) /\ UNCHANGED restVars
    \/ \E c \in Clients, e \in AiFeed : feed_ai(c, e) /\ UNCHANGED restVars
    \/ \E c \in Clients, e \in AiArrivals :
         handle_openai_messages(c, e) /\ UNCHANGED restVars
    \/ process_twilio /\ UNCHANGED restVars
    \/ process_ai /\ UNCHANGED restVars
    \/ save_data /\ UNCHANGED streamVars
    \/ workflow_update /\ UNCHANGED restVars
    \/ \E c \in Clients : ws_close(c) /\ UNCHANGED runVars
    \/ \E c \in Clients :
         /\ cleanup_client(c)
         /\ wf_pc' = Orphan
         /\ UNCHANGED << node, call_state, persisted, ended_at_persist,
                         esc_seen, ghostVars, restVars >>

CallSpec == Init /\ [][CallNext]_vars

\* The handlers of the call workflow alone, on every CallState the graph can
\* be handed (state.py 42-49: call_ended and escalated are plain booleans of
\* the input) and at every node, for a registered call with at most one
\* event on each queue.
HandlerInit ==
    /\ now = 0
    /\ \E ws \in {"open", "closed"} :
         active_connections = [c \in Clients |-> ws]
    /\ \E q \in {<< >>} \cup {<< m >> : m \in TelephonyFeed} :
         twilio_queues = [c \in Clients |-> q]
    /\ \E q \in {<< >>} \cup {<< e >> : e \in AiFeed} :
         openai_queues = [c \in Clients |-> q]
    /\ interruption_events = << >>
    /\ states = [c \in Clients |-> NewState]
    /\ stream_sids = << >>
    /\ tasks = [t \in TaskNames |-> "not_started"]
    /\ teardowns = [c \in Clients |-> 0]
    /\ lastOp = Op("init", NoClient, "none", FALSE, Nothing)
    /\ node \in Nodes
    /\ wf_pc = "run"
    /\ \E c \in Clients, ended \in BOOLEAN, esc \in BOOLEAN :
         call_state = [NewCallState(c) EXCEPT !.call_ended = ended,
                                              !.escalated = esc]
    /\ persisted = 0
    /\ ended_at_persist = FALSE
    /\ telephony_fed = 0
    /\ stop_fed = FALSE
    /\ ai_fed = 0
    /\ ai_arrivals = << >>
    /\ esc_seen = FALSE
    /\ TicketInit
    /\ StreamInit

HandlerNext ==
    \/ process_twilio /\ UNCHANGED restVars
    \/ process_ai /\ UNCHANGED restVars
    \/ handle_emergency /\ UNCHANGED restVars
    \/ save_data /\ UNCHANGED streamVars
    \/ workflow_update /\ UNCHANGED restVars

HandlerSpec == HandlerInit /\ [][HandlerNext]_vars

\* The queues of one call under load: both producers run as often as the
\* queues let them, and forward_twilio_media takes events off the telephony
\* queue.
CapNext ==
    \/ \E c \in Clients : connect(c) /\ UNCHANGED runVars
    \/ \E c \in Clients, p \in Payloads :
         process_media_packet(c, TwilioMedia(p)) /\ UNCHANGED runVars
    \/ \E c \in Clients, t \in CapTexts :
         handle_openai_event(c, AiTranscript(t)) /\ UNCHANGED runVars
    \/ \E c \in Clients : forward_twilio_media(c) /\ UNCHANGED runVars

CapSpec == Init /\ [][CapNext]_vars

\* One call's media stream in the running service: the three tasks of
\* process_client_stream and process_media_packets all read the call's
\* queues, and check_websocket_health tears the call down once the telephony
\* peer is gone. (workflow_update cannot tear down here: no time passes.)
StreamNext ==
    \/ startup_event /\ UNCHANGED runVars
    \/ \E c \in Clients : connect(c) /\ UNCHANGED runVars
    \/ \E c \in Clients : process_client_stream(c)
    \/ \E c \in Clients : run_agent_workflow(c) /\ WorkflowTask /\ UNCHANGED tkVars
    \/ \E c \in Clients, m \in TelephonyFeed :
         feed_telephony(c, m) /\ UNCHANGED restVars
    \/ \E c \in Clients : forward_task(c)
    \/ \E c \in Clients, e \in AiArrivals : openai_task(c, e)
    \/ openai_ws_close
    \/ process_media_packets
         /\ UNCHANGED << call_tasks, openai_ws, wfVars, tkVars >>
    \/ process_twilio /\ WorkflowTask /\ UNCHANGED tkVars
    \/ process_ai /\ WorkflowTask /\ UNCHANGED tkVars
    \/ save_data /\ WorkflowTask
    \/ workflow_update /\ WorkflowTask /\ UNCHANGED tkVars
    \/ \E c \in Clients : ws_close(c) /\ UNCHANGED runVars
    \/ /\ check_websocket_health
       /\ wf_pc' = IF lastOp'.raised = "none" THEN wf_pc ELSE Orphan
       /\ packets_pc' = IF lastOp'.raised = "none" THEN packets_pc
                        ELSE PacketsOrphan
       /\ UNCHANGED << node, call_state, persisted, ended_at_persist,
                       esc_seen, ghostVars, call_tasks, openai_ws, tkVars >>

StreamSpec == Init /\ [][StreamNext]_vars

\* The call with the scheduling asyncio gives its workflow task: a node that
\* can take a step does. Nothing obliges a peer to send or to go away.
CallLiveSpec ==
    /\ Init
    /\ [][CallNext]_vars
    /\ WF_vars(process_twilio /\ UNCHANGED restVars)
    /\ WF_vars(process_ai /\ UNCHANGED restVars)
    /\ WF_vars(save_data /\ UNCHANGED streamVars)
    /\ WF_vars(workflow_update /\ UNCHANGED restVars)

\* The service with the scheduling asyncio gives it: a created task that can
\* run does run, and time passes. Nothing obliges a peer to send, a caller to
\* call, or the workflow (which calls handle_state_updates after a step) to
\* step.
LiveSpec ==
    /\ Init
    /\ [][ServiceNext]_vars
    /\ WF_vars(startup_event /\ UNCHANGED runVars)
    /\ WF_vars(monitor_queues /\ UNCHANGED runVars)
    /\ WF_vars(check_websocket_health /\ UNCHANGED runVars)
    /\ WF_vars(Tick /\ UNCHANGED runVars)

\* The stream with the scheduling asyncio gives its tasks: a task that can
\* take a turn does. Nothing obliges a peer to send or to go away.
StreamLiveSpec ==
    /\ Init
    /\ [][StreamNext]_vars
    /\ WF_vars(startup_event /\ UNCHANGED runVars)
    /\ WF_vars(\E c \in Clients : forward_task(c))
    /\ WF_vars(process_media_packets
                 /\ UNCHANGED << call_tasks, openai_ws, wfVars, tkVars >>)
    /\ WF_vars(process_twilio /\ WorkflowTask /\ UNCHANGED tkVars)
    /\ WF_vars(process_ai /\ WorkflowTask /\ UNCHANGED tkVars)
    /\ WF_vars(save_data /\ WorkflowTask)
    /\ WF_vars(workflow_update /\ WorkflowTask /\ UNCHANGED tkVars)

\* ----------------------------------------------------------------- claims
\* C1: once media events and then a stop have been fed to the workflow of a
\* call, the workflow reaches save_data (Persist), unless the call is torn
\* down first; it enters save_data at most once, and with call_ended true.
C1_StopReachesPersist ==
    /\ [](persisted <= 1)
    /\ [](persisted = 1 => ended_at_persist)
    /\ \A c \in Clients :
         (stop_fed /\ call_state.client_id = c)
             ~> (persisted = 1 \/ ~Registered(c) \/ wf_pc = "orphaned")

\* C2: teardown is idempotent. A disconnect of a client that is not (or no
\* longer) registered, called directly or asked for through
\* handle_state_updates, raises nothing and leaves the registry as the first
\* teardown left it, the client still absent.
C2_TeardownIdempotent ==
    [][\A c \in Clients :
         ( /\ lastOp'.op \in {"disconnect", "handle_state_updates"}
           /\ lastOp'.client = c
           /\ ~Registered(c) )
            => /\ lastOp'.raised = "none"
               /\ ~Registered(c)'
               /\ UNCHANGED << active_connections, twilio_queues, openai_queues,
                               interruption_events, states, stream_sids >>]_vars

\* A second disconnect of the same client has run.
C2_SecondTeardown ==
    \E c \in Clients :
        /\ lastOp.op = "disconnect"
        /\ lastOp.client = c
        /\ ~lastOp.present
        /\ teardowns[c] = 2

\* C3: right after unregister(callId) the registry holds nothing of that
\* call: connection, both queues, session state, interruption event and
\* stream token are gone.
C3_NothingRemains ==
    \A c \in Clients :
        (lastOp.op = "disconnect" /\ lastOp.client = c)
            => /\ c \notin DOMAIN active_connections
               /\ c \notin DOMAIN twilio_queues
               /\ c \notin DOMAIN openai_queues
               /\ c \notin DOMAIN interruption_events
               /\ c \notin DOMAIN states
               /\ c \notin DOMAIN stream_sids

\* C4: a queue never holds more than its capacity of 100 events; a producer
\* whose queue is full cannot complete its put; and a put that completes adds
\* the event at the tail and drops nothing.
C4_QueuesBounded ==
    /\ [](\A c \in DOMAIN twilio_queues :
             /\ Len(twilio_queues[c]) <= QueueMaxSize
             /\ Len(openai_queues[c]) <= QueueMaxSize)
    /\ [][\A c \in DOMAIN twilio_queues :
             /\ (lastOp'.op = "process_media_packet" /\ lastOp'.client = c)
                  => /\ Len(openai_queues[c]) < QueueMaxSize
                     /\ c \in DOMAIN openai_queues'
                     /\ \E p \in Payloads :
                          openai_queues'[c] =
                              Append(openai_queues[c], AudioInputItem(p))
             /\ (lastOp'.op = "handle_openai_event" /\ lastOp'.client = c)
                  => /\ Len(twilio_queues[c]) < QueueMaxSize
                     /\ c \in DOMAIN twilio_queues'
                     /\ \E t \in CapTexts :
                          twilio_queues'[c] =
                              Append(twilio_queues[c], ResponseItem(t))]_vars

\* Both queues of a call are full, the last put having filled one.
C4_QueuesFull ==
    \E c \in DOMAIN twilio_queues :
        /\ Len(twilio_queues[c]) = QueueMaxSize
        /\ Len(openai_queues[c]) = QueueMaxSize
        /\ lastOp.op \in {"process_media_packet", "handle_openai_event"}

\* C5: when AI responses A1 and then A2 have arrived for a call and every
\* queued event of the call has been consumed, the transcript holds A1's text
\* before A2's.
C5_ArrivalOrderKept ==
    \A c \in Clients :
        ( /\ call_state.client_id = c
          /\ Registered(c)
          /\ twilio_queues[c] = << >>
          /\ openai_queues[c] = << >> )
        => \A a, b \in 1..Len(ai_arrivals) :
             a < b =>
               \E i, j \in 1..Len(call_state.transcripts) :
                   /\ i < j
                   /\ call_state.transcripts[i] = Entry("assistant", ai_arrivals[a])
                   /\ call_state.transcripts[j] = Entry("assistant", ai_arrivals[b])

\* C6: a registered session idle for longer than the threshold is eventually
\* torn down, so that its lookup finds nothing.
C6_IdleTornDown ==
    \A c \in Clients :
        (Registered(c) /\ Idle(c)) ~> ~Registered(c)

\* C7: once process_ai has consumed an AI response that carries the
\* escalation condition and has returned, the workflow is in handle_emergency
\* or has been through it (escalated is true); and from handle_emergency,
\* with call_ended true, the router leads to save_data.
C7_EscalationEntersEmergency ==
    /\ (esc_seen /\ node # "process_ai")
          => (node = "handle_emergency" \/ call_state.escalated)
    /\ route_emergency([call_state EXCEPT !.call_ended = TRUE]) = "save_data"

\* pending, then processing, then completed or failed.
StatusRank(status) ==
    CASE status = "pending" -> 0
      [] status = "processing" -> 1
      [] OTHER -> 2

StatusForward(before, after) ==
    /\ StatusRank(before) <= StatusRank(after)
    /\ StatusRank(before) = 2 => after = before

\* C8: no step of the ticket workflow moves status backward along
\* pending, processing, {completed, failed}, and none takes a TicketState
\* whose error is set to one whose error is null.
C8_StatusForwardErrorSticky ==
    [][/\ StatusForward(tk_state.status, tk_state'.status)
       /\ (tk_state.error # None => tk_state'.error # None)]_vars

\* A handler has run on a TicketState whose error is set and whose status is
\* past pending.
C8_ErroredStateStepped ==
    /\ tk_node \in {"END", "raised"}
    /\ tk_state.error # None
    /\ tk_state.status = "processing"

\* The ticket run is over: it reached END or an exception left it.
TicketRunOver == tk_node \in {"END", "raised"}

\* C9: a run of classify_and_create_ticket whose backend answers a complete
\* classification of priority high ends at END with status completed,
\* severity_score 3 and a generated ticket id.
C9_CompleteClassificationCompletes ==
    ( /\ tk_entry
      /\ TicketRunOver
      /\ tk_api # None
      /\ tk_api[1].ok
      /\ tk_api[1].content.json
      /\ tk_api[1].content.body =
            [priority |-> "high", location |-> "123 Main St", ticket_type |-> "fire"] )
    => /\ tk_node = "END"
       /\ tk_state.status = "completed"
       /\ tk_state.parsed_response # None
       /\ tk_state.parsed_response[1].severity_score = 3
       /\ tk_state.parsed_response[1].ticket_id \in TicketIds

\* C10: a run of classify_and_create_ticket whose backend answers a
\* classification without location ends at END with status failed and with
\* parsed_response.error naming every required field that is missing.
C10_MissingFieldFails ==
    ( /\ tk_entry
      /\ TicketRunOver
      /\ tk_api # None
      /\ tk_api[1].ok
      /\ tk_api[1].content.json
      /\ ~HasKey(tk_api[1].content.body, "location") )
    => /\ tk_node = "END"
       /\ tk_state.status = "failed"
       /\ tk_state.parsed_response # None
       /\ HasKey(tk_state.parsed_response[1], "error")
       /\ tk_state.parsed_response[1].error.fields = Missing(tk_api[1].content.body)

\* The backend's answer makes the ticket workflow fail: the request raised,
\* the text is not JSON, or the object lacks a required field.
TicketFailure(api) ==
    \/ ~api.ok
    \/ ~api.content.json
    \/ Missing(api.content.body) # << >>

\* C11: a run of classify_and_create_ticket in which the backend fails, the
\* output is malformed or a required field is missing ends at END with
\* status failed, and the caller receives a dictionary with status failed,
\* the error message and the error kind.
C11_FailureEndsInHandleError ==
    ( /\ tk_entry
      /\ TicketRunOver
      /\ tk_api # None
      /\ TicketFailure(tk_api[1]) )
    => /\ tk_node = "END"
       /\ tk_state.status = "failed"
       /\ tk_result # None
       /\ HasKey(tk_result[1], "status")
       /\ tk_result[1].status = "failed"
       /\ HasKey(tk_result[1], "error")
       /\ HasKey(tk_result[1], "error_type")

\* C12: once the call of a media stream has been torn down, each of the
\* stream's three tasks (forward_twilio_media, handle_openai_messages,
\* run_agent_workflow) exits, and no consumer stays suspended on a queue of
\* the call.
C12_TasksExitAfterTeardown ==
    \A c \in Clients :
        ( /\ \A t \in CallTaskNames : call_tasks[t] # "not_started"
          /\ call_state.client_id = c
          /\ ~Registered(c) )
            ~> ( /\ \A t \in CallTaskNames : call_tasks[t] = "exited"
                 /\ packets_pc # "orphaned" )

\* C13: every pop on a queue of a call returns within the short timeout (no
\* consumer stays suspended in get()), and get_twilio_event answers a call
\* that is no longer registered differently from a call whose queue is empty.
C13_PopReturnsEmptyOrNotFound ==
    \A c \in Clients :
        /\ packets_pc = "run"
        /\ (call_state.client_id = c => wf_pc \notin {"get", "orphaned"})
        /\ ( /\ lastOp.op = "forward_twilio_media"
             /\ lastOp.client = c
             /\ c \notin DOMAIN twilio_queues )
               => get_twilio_event(twilio_queues, c)
                    # get_twilio_event(Put(twilio_queues, c, << >>), c)

\* C14: no event placed on the telephony queue of a call is lost. While the
\* call has not been torn down, once its queue is empty every media event
\* that was placed on it has been handled by process_twilio, its destination:
\* the transcript holds a user entry for each.
C14_NoEventDropped ==
    \A c \in Clients :
        ( /\ c \in DOMAIN twilio_queues
          /\ teardowns[c] = 0
          /\ twilio_queues[c] = << >> )
            => Len(SelectSeq(IF call_state.client_id = c
                             THEN call_state.transcripts ELSE << >>,
                             LAMBDA entry : entry.role = "user"))
                 = telephony_fed - (IF stop_fed THEN 1 ELSE 0)

\* C15: an exception inside a handler of the call workflow (process_twilio,
\* process_ai, handle_emergency) is caught and the step changes nothing: the
\* CallState after it is the CallState before it, and the run is not aborted.
C15_HandlerExceptionIsNoOp ==
    [][ ( /\ lastOp'.op \in {"process_twilio", "process_ai", "handle_emergency"}
          /\ lastOp'.raised # "none" )
            => ( /\ call_state' = call_state
                 /\ node' # "aborted" ) ]_vars

\* C16: registration always succeeds. After connect, or after the
\* media-stream handler has accepted a connection and registered it, the call
\* has a state with call_status connecting and connected_at set to the time of
\* registration, and its two queues exist, are empty and take a put.
C16_RegisterSucceeds ==
    \A c \in Clients :
        (lastOp.op \in {"connect", "handle_media_stream"} /\ lastOp.client = c)
            => /\ Registered(c)
               /\ states[c].call_status = "connecting"
               /\ states[c].connected_at = now
               /\ c \in DOMAIN twilio_queues /\ c \in DOMAIN openai_queues
               /\ twilio_queues[c] = << >> /\ HasRoom(twilio_queues[c])
               /\ openai_queues[c] = << >> /\ HasRoom(openai_queues[c])

\* C17: the ticket workflow is started when, and only when, the call workflow
\* has entered save_data (Persist): not before, and once the run is over
\* after save_data the ticket workflow has been started by
\* classify_and_create_ticket; save_data is entered at most once.
C17_TicketInvokedOnceAtPersist ==
    /\ persisted <= 1
    /\ (persisted = 0 => tk_node = "not_started")
    /\ (persisted = 1 /\ node \in {"END", "aborted"})
         => (tk_entry /\ tk_node # "not_started")

\* C18: an event that arrives for a call is placed on the call's queue for
\* its source. When handle_openai_messages has handed an AI event of a
\* registered call to handle_openai_event, the event is the last one on the
\* call's AI queue, where process_ai will find it.
C18_AiEventsReachAiQueue ==
    \A c \in Clients :
        ( /\ lastOp.op = "handle_openai_event"
          /\ lastOp.client = c
          /\ lastOp.present
          /\ Registered(c) )
            => /\ openai_queues[c] # << >>
               /\ ai_arrivals # << >>
               /\ openai_queues[c][Len(openai_queues[c])].data
                    = ai_arrivals[Len(ai_arrivals)]

\* C19: a step of process_media_packet lets no exception out; when it stores
\* a stream token it sends the 'connected' acknowledgment for that token; it
\* puts nothing on the telephony queue, and on the AI queue either nothing or
\* exactly one audio_input event.
C19_MediaPacketHandled ==
    [][ \A c \in Clients :
          (lastOp'.op = "process_media_packet" /\ lastOp'.client = c)
            => /\ lastOp'.raised = "none"
               /\ stream_sids' # stream_sids
                    => lastOp'.sent = Ev("connected", NoKey, NoKey, stream_sids'[c])
               /\ twilio_queues' = twilio_queues
               /\ \/ openai_queues' = openai_queues
                  \/ /\ c \in DOMAIN openai_queues
                     /\ Len(openai_queues'[c]) = Len(openai_queues[c]) + 1
                     /\ openai_queues'[c][Len(openai_queues'[c])].type
                          = "audio_input" ]_vars

\* C20: a step of handle_openai_event changes, of the registry, only the
\* telephony queue and last_response; and when it forwards a finalized
\* transcript onto the telephony queue of a call whose workflow runs, it
\* also appends the text to the call's transcript as an assistant entry.
C20_TranscriptForwardedAndAppended ==
    [][ \A c \in Clients :
          (lastOp'.op = "handle_openai_event" /\ lastOp'.client = c)
            => /\ openai_queues' = openai_queues
               /\ active_connections' = active_connections
               /\ stream_sids' = stream_sids
               /\ \/ states' = states
                  \/ /\ Registered(c)
                     /\ states' = Touch(c, "last_response", Some(now))
               /\ (twilio_queues' # twilio_queues /\ call_state.client_id = c)
                    => call_state'.transcripts
                         = Append(call_state.transcripts,
                                  Entry("assistant",
                                        twilio_queues'[c][Len(twilio_queues'[c])].data))
      ]_vars

\* C21: process_ai ends with the completed response. The step in which it
\* appends an assistant entry appends exactly one, forwards the text to the
\* telephony side, and hands control back to the router.
C21_ProcessAiReturns ==
    [][ ( /\ node = "process_ai"
          /\ call_state'.transcripts # call_state.transcripts )
            => /\ Len(call_state'.transcripts) = Len(call_state.transcripts) + 1
               /\ call_state'.transcripts[Len(call_state'.transcripts)].role
                    = "assistant"
               /\ lastOp'.sent.event = "response"
               /\ node' = route_ai(call_state')
               /\ wf_pc' = "update" ]_vars

C23_MonitorsSurviveTeardown ==
    /\ \A t \in TaskNames : tasks[t] # "crashed"
    /\ lastOp.op \in {"monitor_queues", "check_websocket_health",
                      "monitor_connections"}
         => lastOp.raised = "none"

\* C24: the liveness check tears down every registered call whose telephony
\* connection is seen not open, the first one and every later one, and it
\* never tears down a call whose connection is open.
C24_ClosedConnectionTornDown ==
    /\ [][ \A c \in Clients :
             ( /\ lastOp'.op = "check_websocket_health"
               /\ Registered(c)
               /\ ~Registered(c)' )
                 => active_connections[c] # "open" ]_vars
    /\ \A c \in Clients :
         (Registered(c) /\ active_connections[c] # "open") ~> ~Registered(c)

\* C25: on a TicketState whose error is set, parse_response and
\* firebase_upload are pass-throughs (the state they return is the state they
\* were given) and the run goes on to handle_errors; and no step of the
\* ticket workflow changes an error that is set.
C25_ErroredStatePassesThrough ==
    [][ /\ (tk_node \in {"parse", "upload"} /\ tk_state.error # None)
          => (tk_state' = tk_state /\ tk_node' = "handle_errors")
        /\ tk_state.error # None => tk_state'.error = tk_state.error ]_vars

\* parse_response or firebase_upload has returned a TicketState whose error
\* is set, and the run stands at handle_errors.
C25_ErroredStatePassed ==
    /\ lastOp.op \in {"parse", "upload"}
    /\ lastOp.raised = "none"
    /\ tk_state.error # None
    /\ tk_node = "handle_errors"

\* C26: the severity score is a total function of the priority. For the
\* object of every completion that is JSON, _add_metadata gives a score, and
\* the score is 3 for high, 2 for medium, 1 for low and 0 for every other
\* priority, a missing one included.
C26_SeverityFromPriority ==
    (tk_state.completion # None /\ Clean(tk_state.completion[1]).json)
        => LET response == Clean(tk_state.completion[1]).body IN
           /\ ScoreDefined(response)
           /\ SeverityScore(response)
                = CASE response.priority = "high" -> 3
                    [] response.priority = "medium" -> 2
                    [] response.priority = "low" -> 1
                    [] OTHER -> 0

\* C27: call_ended and escalated are monotonic: no step of the call workflow
\* takes a CallState in which one of them is true to one in which it is
\* false.
C27_FlagsMonotonic ==
    [][ /\ call_state.call_ended => call_state'.call_ended
        /\ call_state.escalated => call_state'.escalated ]_vars

\* process_ai has appended to the transcript of a CallState in which both
\* flags were true, and has returned.
C27_FlaggedStateStepped ==
    /\ lastOp.op = "process_ai"
    /\ call_state.transcripts # << >>
    /\ call_state.call_ended
    /\ call_state.escalated

\* C28: last_activity is refreshed by every event of a call. After a step of
\* process_media_packet or handle_openai_event that sent something to the
\* telephony peer or put something on a queue of a registered call, the
\* call's last_activity is the current time.
C28_LastActivityRefreshed ==
    [][ \A c \in Clients :
          ( /\ lastOp'.op \in {"process_media_packet", "handle_openai_event"}
            /\ lastOp'.client = c
            /\ Registered(c)
            /\ \/ lastOp'.sent # Nothing
               \/ twilio_queues' # twilio_queues
               \/ openai_queues' # openai_queues )
              => states'[c].last_activity = now' ]_vars

\* C29: the media counter counts the media frames of a call, and the status
\* follows it. While a registered call has an audio_input item on its AI
\* queue (a media frame was processed since it registered) its media_counter
\* is positive, and a state update that leaves it registered has set its
\* call_status to active.
C29_MediaMakesActive ==
    \A c \in Clients :
        (Registered(c) /\ openai_queues[c] # << >>)
            => /\ states[c].media_counter > 0
               /\ (lastOp.op = "handle_state_updates" /\ lastOp.client = c)
                    => states[c].call_status = "active"

\* C30: the idle check spares a call that is still exchanging events. A step
\* of handle_state_updates or monitor_connections that tears a call down
\* happens only when the call had no AI response within the idle threshold:
\* its last_response is unset or more than IdleSeconds old.
C30_IdleCheckSparesLiveCall ==
    [][ \A c \in Clients :
          ( /\ lastOp'.op \in {"handle_state_updates", "monitor_connections"}
            /\ lastOp'.client = c
            /\ Registered(c)
            /\ ~Registered(c)' )
            => \/ states[c].last_response = None
               \/ now - states[c].last_response[1] > IdleSeconds ]_vars

\* C31: the registry maps are consistent wherever another coroutine can run.
\* active_connections, twilio_queues, openai_queues and states hold the same
\* call ids in every state, whatever the order of connect, disconnect and the
\* monitor loops; and a turn of monitor_queues or check_websocket_health,
\* which indexes the maps with ids snapshotted from active_connections, never
\* ends in a missing-key failure.
C31_RegistryMapsConsistent ==
    /\ DOMAIN active_connections = DOMAIN twilio_queues
    /\ DOMAIN twilio_queues = DOMAIN openai_queues
    /\ DOMAIN openai_queues = DOMAIN states
    /\ lastOp.op \in {"monitor_queues", "check_websocket_health"}
         => lastOp.raised # "KeyError"

\* A call registered some time ago holds a queued item, and monitor_queues
\* has just indexed its queues.
C31_MonitorIndexedQueues ==
    /\ lastOp.op = "monitor_queues"
    /\ \E c \in Clients :
         /\ Registered(c)
         /\ c \in DOMAIN twilio_queues
         /\ twilio_queues[c] # << >>
         /\ now > states[c].connected_at

=============================================================================
